---- MODULE Spec2Model ----
(***************************************************************************)
(* Model of sslyze/cli/command_line_parser.py:                             *)
(*   CommandLineServerStringParser  (parse_server_string and its helpers)  *)
(*   CommandLineParser.parse_command_line                                  *)
(*                                                                         *)
(* Text is modelled as a sequence of character codes: the bytes of a str   *)
(* (0..255) or the code points of a unicode, so that str.split,            *)
(* str.replace, str.strip, str.decode('utf-8') and int() are computed      *)
(* character by character.  An optional value is <<>> (Python None) or     *)
(* <<v>>.                                                                  *)
(***************************************************************************)
EXTENDS Integers, Sequences, FiniteSets, TLC

VARIABLES
    pc,                 \* position inside parse_command_line / the parser harness
    has_ipv6,           \* socket.has_ipv6 of the platform
    env,                \* outcomes of the external collaborators the options name
    args_command_list,  \* the option values (optparse Values object)
    args_target_list,   \* positional targets, then the targets to resolve
    client_auth_creds,  \* local of parse_command_line
    http_tunneling_settings, \* local of parse_command_line
    tls_wrapped_protocol,    \* local of parse_command_line
    good_server_list,   \* local of parse_command_line
    bad_server_list,    \* local of parse_command_line
    cursor,             \* number of targets the for loop has consumed
    error,              \* the exception that left parse_command_line, "" if none
    returned,           \* <<>> until the return statement, then <<the tuple>>
    checked,            \* history: the configuration checks evaluated, in order
    touched,            \* history: per-target events (parse / construct calls)
    raw,                \* history: the options and positional targets as given
    ps_input,           \* parser harness: the server string given
    ps_result           \* parser harness: what parse_server_string produced

vars == <<pc, has_ipv6, env, args_command_list, args_target_list,
          client_auth_creds, http_tunneling_settings, tls_wrapped_protocol,
          good_server_list, bad_server_list, cursor, error, returned,
          checked, touched, raw, ps_input, ps_result>>

(***************************************************************************)
(* Bounds of the model.                                                    *)
(***************************************************************************)
MaxTargets == 2     \* longest target list resolved
MaxPieces == 5      \* longest server string of the parser harness, in pieces

(***************************************************************************)
(* Python values.                                                          *)
(***************************************************************************)
None == <<>>
Some(x) == <<x>>

\* the printable ASCII characters in the order of their codes: 32..95, and
\* 97..126 (a string of the model cannot hold the character 96)
AsciiLow == <<" ", "!", "\"", "#", "$", "%", "&", "'", "(", ")", "*", "+",
              ",", "-", ".", "/", "0", "1", "2", "3", "4", "5", "6", "7",
              "8", "9", ":", ";", "<", "=", ">", "?", "@", "A", "B", "C",
              "D", "E", "F", "G", "H", "I", "J", "K", "L", "M", "N", "O",
              "P", "Q", "R", "S", "T", "U", "V", "W", "X", "Y", "Z", "[",
              "\\", "]", "^", "_">>

AsciiHigh == <<"a", "b", "c", "d", "e", "f", "g", "h", "i", "j", "k", "l", "m",
               "n", "o", "p", "q", "r", "s", "t", "u", "v", "w", "x", "y", "z",
               "{", "|", "}", "~">>

OrdTable ==
    [c \in {AsciiLow[k] : k \in DOMAIN AsciiLow} \cup {AsciiHigh[k] : k \in DOMAIN AsciiHigh}
       |-> IF \E k \in DOMAIN AsciiLow : AsciiLow[k] = c
           THEN 31 + (CHOOSE k \in DOMAIN AsciiLow : AsciiLow[k] = c)
           ELSE 96 + (CHOOSE k \in DOMAIN AsciiHigh : AsciiHigh[k] = c)]

\* ord(c) of a printable ASCII character
Ord(c) == OrdTable[c]

\* the text of a literal, given character by character
Text(q) == [k \in DOMAIN q |-> Ord(q[k])]

\* x in s  (s a string, x one character)
Contains(s, c) == \E k \in 1..Len(s) : s[k] = c

\* s.find(c) + 1 for a character that occurs in s
IndexOf(s, c) == CHOOSE k \in 1..Len(s) : s[k] = c /\ \A j \in 1..(k-1) : s[j] # c

\* s.split(c): the pieces between the occurrences of c, all of them
RECURSIVE Split(_, _)
Split(s, c) ==
    IF ~Contains(s, c) THEN <<s>>
    ELSE LET k == IndexOf(s, c)
         IN <<SubSeq(s, 1, k-1)>> \o Split(SubSeq(s, k+1, Len(s)), c)

\* s.replace(c, '')
Replace(s, c) == SelectSeq(s, LAMBDA x : x # c)

\* what str.strip() of a byte string strips, and what C's isspace() accepts:
\* \t \n \x0b \x0c \r and the space
Whitespace == {9, 10, 11, 12, 13, 32}

\* s.strip()
RECURSIVE LStrip(_)
LStrip(s) == IF s # <<>> /\ Head(s) \in Whitespace THEN LStrip(Tail(s)) ELSE s
RECURSIVE RStrip(_)
RStrip(s) == IF s # <<>> /\ s[Len(s)] \in Whitespace
             THEN RStrip(SubSeq(s, 1, Len(s)-1)) ELSE s
Strip(s) == RStrip(LStrip(s))

\* s.decode('utf-8'), strict, of the Python 2.7 decoder on a build with
\* sys.maxunicode = 0x10FFFF: how many bytes the first character of b takes,
\* 0 where the decoder raises UnicodeDecodeError.
Continuation(x) == x \in 128..191

Utf8Length(b) ==
    LET c == b[1]
    IN IF c < 128 THEN 1
       ELSE IF c \in 194..223
       THEN (IF Len(b) >= 2 /\ Continuation(b[2]) THEN 2 ELSE 0)
       ELSE IF c \in 224..239
       THEN (IF Len(b) >= 3 /\ Continuation(b[2]) /\ Continuation(b[3])
                /\ (c = 224 => b[2] >= 160)
             THEN 3 ELSE 0)
       ELSE IF c \in 240..244
       THEN (IF Len(b) >= 4 /\ Continuation(b[2]) /\ Continuation(b[3])
                /\ Continuation(b[4])
                /\ (c = 240 => b[2] >= 144) /\ (c = 244 => b[2] <= 143)
             THEN 4 ELSE 0)
       ELSE 0

\* the code point of the first character of b, n = Utf8Length(b) > 0
CodePoint(b, n) ==
    CASE n = 1 -> b[1]
      [] n = 2 -> (b[1] - 192) * 64 + (b[2] - 128)
      [] n = 3 -> (b[1] - 224) * 4096 + (b[2] - 128) * 64 + (b[3] - 128)
      [] n = 4 -> (b[1] - 240) * 262144 + (b[2] - 128) * 4096 + (b[3] - 128) * 64
                    + (b[4] - 128)

\* <<text>>, or None where UnicodeDecodeError is raised
RECURSIVE Utf8Decode(_)
Utf8Decode(b) ==
    IF b = <<>> THEN Some(<<>>)
    ELSE LET n == Utf8Length(b)
         IN IF n = 0 THEN None
            ELSE LET rest == Utf8Decode(SubSeq(b, n + 1, Len(b)))
                 IN IF rest = None THEN None
                    ELSE Some(<<CodePoint(b, n)>> \o rest[1])

\* the implicit str -> unicode coercion (ascii codec): fails on a byte >= 128
AsciiDecodable(b) == \A k \in 1..Len(b) : b[k] < 128

\* int() of a unicode goes through PyUnicode_EncodeDecimal: a character that
\* unicode.isspace() accepts becomes a space, a character with a decimal
\* digit value becomes that ASCII digit, another character of 1..255 stays,
\* anything else is an error.  The tables are those of Python 2.7 (Unicode
\* 5.2.0).
UnicodeSpace == (9..13) \cup (28..32) \cup {133, 160, 5760, 6158} \cup (8192..8202)
                \cup {8232, 8233, 8239, 8287, 12288}

\* the code points of the digits zero; each is followed by its digits 1..9
DecimalDigitZeros ==
    {48, 1632, 1776, 1984, 2406, 2534, 2662, 2790, 2918, 3046, 3174, 3302, 3430,
     3664, 3792, 3872, 4160, 4240, 6112, 6160, 6470, 6608, 6784, 6800, 6992, 7088,
     7232, 7248, 42528, 43216, 43264, 43472, 43600, 44016, 65296, 66720,
     120782, 120792, 120802, 120812, 120822}

\* U+19DA (6618, NEW TAI LUE THAM DIGIT ONE) has the decimal value 1 as well
Digits == UNION {z..(z + 9) : z \in DecimalDigitZeros} \cup {6618}

DigitVal(c) == IF c = 6618 THEN 1
               ELSE c - (CHOOSE z \in DecimalDigitZeros : c \in z..(z + 9))

\* <<bytes>>, or None where UnicodeEncodeError (a ValueError) is raised
EncodeDecimal(s) ==
    IF \E k \in 1..Len(s) : s[k] \notin UnicodeSpace \cup Digits \cup (1..255)
    THEN None
    ELSE Some([k \in 1..Len(s) |->
                 IF s[k] \in UnicodeSpace THEN 32
                 ELSE IF s[k] \in Digits THEN 48 + DigitVal(s[k])
                 ELSE s[k]])

\* the value of a run of ASCII digits
RECURSIVE DecimalValue(_)
DecimalValue(s) == IF s = <<>> THEN 0
                   ELSE 10 * DecimalValue(SubSeq(s, 1, Len(s)-1)) + (s[Len(s)] - 48)

\* PyInt_FromString on the digits that follow the sign and its blanks
Unsigned(body) ==
    IF body = <<>> \/ \E k \in 1..Len(body) : body[k] \notin 48..57
    THEN None
    ELSE Some(DecimalValue(body))

Negated(v) == IF v = None THEN None ELSE Some(0 - v[1])

\* PyInt_FromString on the buffer without its surrounding blanks
Signed(t) ==
    IF t # <<>> /\ Head(t) = 45 THEN Negated(Unsigned(LStrip(Tail(t))))
    ELSE IF t # <<>> /\ Head(t) = 43 THEN Unsigned(LStrip(Tail(t)))
    ELSE Unsigned(t)

\* int(s) of a unicode s, as Python 2 does it: EncodeDecimal, then blanks, an
\* optional sign, blanks again, one or more digits, blanks.  <<n>> on
\* success, None where Python raises ValueError.
PyIntOfBuffer(buffer) == IF buffer = None THEN None ELSE Signed(Strip(buffer[1]))

PyInt(s) == PyIntOfBuffer(EncodeDecimal(s))

(***************************************************************************)
(* CommandLineServerStringParser.                                          *)
(* A parse outcome is a record: kind "ok" with host, ip, port; kind "SCE"  *)
(* (ServerConnectivityError) with msg; kind "IndexError" (a list index out *)
(* of range leaves the parser uncaught).                                   *)
(***************************************************************************)
SERVER_STRING_ERROR_BAD_PORT == "Not a valid host:port"
SERVER_STRING_ERROR_NO_IPV6 == "IPv6 is not supported on this platform"

Ok(host, ip, port) == [kind |-> "ok", host |-> host, ip |-> ip, port |-> port, msg |-> ""]
Raise(kind, msg) == [kind |-> kind, host |-> <<>>, ip |-> None, port |-> None, msg |-> msg]

\* _parse_ipv4_server_string: (host, port).  The text handed to int() is the
\* second piece of server_str.split(':').
PortSegment(server_str) == Split(server_str, Ord(":"))[2]

_parse_ipv4_server_string(server_str) ==
    IF Contains(server_str, Ord(":"))
    THEN LET host == Split(server_str, Ord(":"))[1]
             port == PyInt(PortSegment(server_str))
         IN IF port = None
            THEN Raise("SCE", SERVER_STRING_ERROR_BAD_PORT)
            ELSE Ok(host, None, port)
    ELSE Ok(server_str, None, None)

\* _parse_ipv6_server_string: (ipv6_addr, port), the address in field host
_parse_ipv6_server_string(server_str, ipv6) ==
    IF ~ipv6 THEN Raise("SCE", SERVER_STRING_ERROR_NO_IPV6)
    ELSE LET target_split == Split(server_str, Ord("]"))
             addr_split == Split(target_split[1], Ord("["))
         IN IF Len(addr_split) < 2 THEN Raise("IndexError", "list index out of range")
            ELSE IF Len(target_split) < 2 THEN Raise("IndexError", "list index out of range")
            ELSE IF Contains(target_split[2], Ord(":"))
                 THEN LET port == PyInt(Split(target_split[2], Ord(":"))[2])
                      IN IF port = None
                         THEN Raise("SCE", SERVER_STRING_ERROR_BAD_PORT)
                         ELSE Ok(addr_split[2], None, port)
                 ELSE Ok(addr_split[2], None, None)

parse_server_string(server_str_in, ipv6) ==
    LET braces == Contains(server_str_in, Ord("{")) /\ Contains(server_str_in, Ord("}"))
        raw_target == Split(server_str_in, Ord("{"))
        ip0 == IF braces THEN Some(Replace(raw_target[2], Ord("}"))) ELSE None
        server_str == IF braces THEN raw_target[1] ELSE server_str_in
    IN IF Contains(server_str, Ord("["))
       THEN LET r == _parse_ipv6_server_string(server_str, ipv6)
            IN IF r.kind = "ok" THEN Ok(r.host, ip0, r.port) ELSE r
       ELSE LET ip6 == IF ip0 # None /\ Contains(ip0[1], Ord("["))
                       THEN Some(_parse_ipv6_server_string(ip0[1], ipv6))
                       ELSE None
            IN IF ip6 # None /\ ip6[1].kind # "ok" THEN ip6[1]
               ELSE LET ip == IF ip6 # None THEN Some(ip6[1].host) ELSE ip0
                        v4 == _parse_ipv4_server_string(server_str)
                    IN IF v4.kind = "ok" THEN Ok(v4.host, ip, v4.port)
                       ELSE v4

(***************************************************************************)
(* Constants of CommandLineParser.                                         *)
(***************************************************************************)
REGULAR_CMD == {"sslv2", "sslv3", "tlsv1", "tlsv1_1", "tlsv1_2", "reneg", "resum",
                "certinfo_basic", "http_get", "hide_rejected_ciphers", "compression",
                "heartbleed", "openssl_ccs", "fallback"}

START_TLS_PROTOCOLS == {"smtp", "xmpp", "xmpp_server", "pop3", "ftp", "imap", "ldap",
                        "rdp", "postgres", "auto"}

\* STARTTLS_PROTOCOL_DICT has text keys and integer keys; a text never equals
\* an integer, so the dictionary is two tables.
STARTTLS_NAME_KEYS == {"smtp", "xmpp", "xmpp_server", "pop3", "imap", "ftp", "ldap",
                       "rdp", "postgres"}

STARTTLS_PROTOCOL_DICT_name(k) ==
    CASE k = "smtp" -> "STARTTLS_SMTP"
      [] k = "xmpp" -> "STARTTLS_XMPP"
      [] k = "xmpp_server" -> "STARTTLS_XMPP_SERVER"
      [] k = "pop3" -> "STARTTLS_POP3"
      [] k = "imap" -> "STARTTLS_IMAP"
      [] k = "ftp" -> "STARTTLS_FTP"
      [] k = "ldap" -> "STARTTLS_LDAP"
      [] k = "rdp" -> "STARTTLS_RDP"
      [] k = "postgres" -> "STARTTLS_POSTGRES"

STARTTLS_PORT_KEYS == {587, 25, 5222, 5269, 109, 110, 143, 220, 21, 3268, 389, 3389, 5432}

STARTTLS_PROTOCOL_DICT_port(k) ==
    CASE k \in {587, 25} -> "STARTTLS_SMTP"
      [] k = 5222 -> "STARTTLS_XMPP"
      [] k = 5269 -> "STARTTLS_XMPP_SERVER"
      [] k \in {109, 110} -> "STARTTLS_POP3"
      [] k \in {143, 220} -> "STARTTLS_IMAP"
      [] k = 21 -> "STARTTLS_FTP"
      [] k \in {3268, 389} -> "STARTTLS_LDAP"
      [] k = 3389 -> "STARTTLS_RDP"
      [] k = 5432 -> "STARTTLS_POSTGRES"

NoError == [type |-> "", msg |-> ""]
CommandLineParsingError(msg) == [type |-> "CommandLineParsingError", msg |-> msg]

MSG_EXCLUSIVE == "Cannot use --targets_list and specify targets within the command line."
MSG_UNREADABLE == "Can't read targets from input file"
MSG_NO_TARGETS == "No targets to scan."
MSG_XML_QUIET == "Cannot use --quiet with --xml_out -."
MSG_JSON_QUIET == "Cannot use --quiet with --json_out -."
MSG_XML_JSON == "Cannot use --xml_out - with --json_out -."
MSG_CERT_KEY == "No private key or certificate file were given. See --cert and --key."
MSG_KEYFORM == "--keyform should be DER or PEM."
MSG_CREDENTIAL == "Invalid client authentication settings"
MSG_PROXY == "Invalid proxy URL for --https_tunnel"
MSG_STARTTLS == "StartTLS should be one of"
MSG_RETRIES == "Cannot have a number smaller than 1 for --nb_retries."

(***************************************************************************)
(* External collaborators.                                                 *)
(***************************************************************************)
\* f.readlines(): the bytes of the file cut after every '\n'
RECURSIVE ReadLines(_)
ReadLines(content) ==
    IF content = <<>> THEN <<>>
    ELSE IF ~Contains(content, 10) THEN <<content>>
    ELSE LET k == IndexOf(content, 10)
         IN <<SubSeq(content, 1, k)>> \o ReadLines(SubSeq(content, k + 1, Len(content)))

\* The loop over the lines of the targets file: blank lines are skipped,
\* lines starting with '#' are skipped, the others are appended stripped.
\* target.startswith(u'#') turns the whole line into a unicode with the ascii
\* codec, so a line that is not blank and holds a byte >= 128 raises
\* UnicodeDecodeError; the targets appended before it stay (field error).
RECURSIVE ReadTargets(_)
ReadTargets(lines) ==
    IF lines = <<>> THEN [targets |-> <<>>, error |-> ""]
    ELSE LET target == Head(lines)
             rest == ReadTargets(Tail(lines))
         IN IF Strip(target) = <<>> THEN rest
            ELSE IF ~AsciiDecodable(target)
            THEN [targets |-> <<>>, error |-> "UnicodeDecodeError"]
            ELSE IF Head(target) = Ord("#") THEN rest
            ELSE [rest EXCEPT !.targets = <<Strip(target)>> \o @]

\* Ports ServerConnectivityInfo may give a descriptor whose target names none.
DefaultPorts == {443, 25}

\* ServerConnectivityInfo(...): the descriptor, or ServerConnectivityError from
\* the connectivity prober, or ValueError for xmpp_to on a protocol that is
\* not XMPP StartTLS.  probe_ok and default_port are the environment's part.
ServerConnectivityInfo(hostname, port, ip_address, protocol, sni, xmpp_to, creds, tunnel, probe_ok, default_port) ==
    IF ~probe_ok
    THEN [kind |-> "SCE", msg |-> "Could not connect", info |-> None]
    ELSE IF xmpp_to # "" /\ protocol \notin {"STARTTLS_XMPP", "STARTTLS_XMPP_SERVER"}
    THEN [kind |-> "ValueError",
          msg |-> "Can only specify xmpp_to for the XMPP StartTLS protocol.",
          info |-> None]
    ELSE [kind |-> "ok", msg |-> "",
          info |-> Some([hostname |-> hostname,
                         port |-> IF port # None THEN port[1] ELSE default_port,
                         ip_address |-> ip_address,
                         tls_wrapped_protocol |-> protocol,
                         tls_server_name_indication |-> sni,
                         xmpp_to_hostname |-> xmpp_to,
                         client_auth_credentials |-> creds,
                         http_tunneling_settings |-> tunnel])]

FailedServerScan(server_string, e, idx) ==
    [server_string |-> server_string, error_message |-> e, idx |-> idx]

(***************************************************************************)
(* parse_command_line, one action per step of its body.                    *)
(***************************************************************************)
\* args_command_list has the attribute: its option was registered (by a
\* plugin, for http_get) or --regular has set it
HasAttr(args, name) == name \in args.attrs

\* line 284: args_command_list.http_get: <<its truth value>>, or None where
\* the lookup raises AttributeError
HttpGet(args) ==
    IF HasAttr(args, "http_get") THEN Some("http_get" \in args.flags) ELSE None

Fail(msg, check) ==
    /\ pc' = "raised"
    /\ error' = CommandLineParsingError(msg)
    /\ checked' = checked \o check

\* lines 151-164: --targets_in
HandleTargetsIn ==
    /\ pc = "targets_in"
    /\ UNCHANGED <<has_ipv6, env, args_command_list, client_auth_creds,
                   http_tunneling_settings, tls_wrapped_protocol, good_server_list,
                   bad_server_list, cursor, returned, touched, raw, ps_input, ps_result>>
    /\ IF ~args_command_list.targets_in
       THEN /\ pc' = "no_targets"
            /\ UNCHANGED <<args_target_list, error, checked, raw>>
       ELSE IF args_target_list # <<>>
       THEN /\ Fail(MSG_EXCLUSIVE, <<"exclusive_inputs">>)
            /\ UNCHANGED args_target_list
       ELSE IF ~env.file_ok
       THEN /\ Fail(MSG_UNREADABLE, <<"exclusive_inputs", "unreadable_file">>)
            /\ UNCHANGED args_target_list
       ELSE LET read == ReadTargets(ReadLines(env.file_content))
            IN /\ args_target_list' = args_target_list \o read.targets
               /\ checked' = checked \o <<"exclusive_inputs", "unreadable_file">>
               /\ IF read.error = ""
                  THEN pc' = "no_targets" /\ UNCHANGED error
                  ELSE /\ pc' = "raised"
                       /\ error' = [type |-> read.error,
                                    msg |-> "'ascii' codec can't decode byte"]

\* lines 166-167
CheckNoTargets ==
    /\ pc = "no_targets"
    /\ UNCHANGED <<has_ipv6, env, args_command_list, args_target_list, client_auth_creds,
                   http_tunneling_settings, tls_wrapped_protocol, good_server_list,
                   bad_server_list, cursor, returned, touched, raw, ps_input, ps_result>>
    /\ IF args_target_list = <<>>
       THEN Fail(MSG_NO_TARGETS, <<"no_targets">>)
       ELSE /\ pc' = "regular"
            /\ checked' = checked \o <<"no_targets">>
            /\ UNCHANGED error

\* lines 170-175: --regular
ExpandRegular ==
    /\ pc = "regular"
    /\ pc' = "output_sinks"
    /\ args_command_list' =
         IF args_command_list.regular
         THEN [args_command_list EXCEPT !.regular = FALSE,
                                        !.flags = @ \cup REGULAR_CMD,
                                        !.attrs = @ \cup REGULAR_CMD]
         ELSE args_command_list
    /\ checked' = checked \o <<"regular">>
    /\ UNCHANGED <<has_ipv6, env, args_target_list, client_auth_creds,
                   http_tunneling_settings, tls_wrapped_protocol, good_server_list,
                   bad_server_list, cursor, error, returned, touched, raw, ps_input,
                   ps_result>>

\* lines 178-190: --quiet, --xml_out -, --json_out -
CheckOutputSinks ==
    /\ pc = "output_sinks"
    /\ UNCHANGED <<has_ipv6, env, args_command_list, args_target_list, client_auth_creds,
                   http_tunneling_settings, tls_wrapped_protocol, good_server_list,
                   bad_server_list, cursor, returned, touched, raw, ps_input, ps_result>>
    /\ LET a == args_command_list
       IN IF a.xml_file = "-" /\ a.quiet
          THEN Fail(MSG_XML_QUIET, <<"xml_quiet">>)
          ELSE IF a.json_file = "-" /\ a.quiet
          THEN Fail(MSG_JSON_QUIET, <<"xml_quiet", "json_quiet">>)
          ELSE IF a.json_file = "-" /\ a.xml_file = "-"
          THEN Fail(MSG_XML_JSON, <<"xml_quiet", "json_quiet", "xml_json">>)
          ELSE /\ pc' = "client_auth"
               /\ checked' = checked \o <<"xml_quiet", "json_quiet", "xml_json">>
               /\ UNCHANGED error

\* line 195: bool(cert) ^ bool(key)
CertKeyMismatch(a) == a.cert # a.key

\* lines 193-214: client certificate
CheckClientAuth ==
    /\ pc = "client_auth"
    /\ UNCHANGED <<has_ipv6, env, args_command_list, args_target_list,
                   http_tunneling_settings, tls_wrapped_protocol, good_server_list,
                   bad_server_list, cursor, returned, touched, raw, ps_input, ps_result>>
    /\ LET a == args_command_list
       IN IF CertKeyMismatch(a)
          THEN /\ Fail(MSG_CERT_KEY, <<"cert_key">>)
               /\ UNCHANGED client_auth_creds
          ELSE IF ~a.cert
          THEN /\ pc' = "https_tunnel"
               /\ client_auth_creds' = None
               /\ checked' = checked \o <<"cert_key">>
               /\ UNCHANGED error
          ELSE IF a.keyform \notin {"DER", "PEM"}
          THEN /\ Fail(MSG_KEYFORM, <<"cert_key", "keyform">>)
               /\ UNCHANGED client_auth_creds
          ELSE IF ~env.cred_ok
          THEN /\ Fail(MSG_CREDENTIAL, <<"cert_key", "keyform", "credential">>)
               /\ UNCHANGED client_auth_creds
          ELSE /\ pc' = "https_tunnel"
               /\ client_auth_creds' = Some(IF a.keyform = "DER" THEN "ASN1" ELSE "PEM")
               /\ checked' = checked \o <<"cert_key", "keyform", "credential">>
               /\ UNCHANGED error

\* lines 217-223: HTTP CONNECT proxy
CheckProxy ==
    /\ pc = "https_tunnel"
    /\ UNCHANGED <<has_ipv6, env, args_command_list, args_target_list, client_auth_creds,
                   tls_wrapped_protocol, good_server_list, bad_server_list, cursor,
                   returned, touched, raw, ps_input, ps_result>>
    /\ IF ~args_command_list.https_tunnel
       THEN /\ pc' = "starttls"
            /\ http_tunneling_settings' = None
            /\ checked' = checked \o <<"proxy">>
            /\ UNCHANGED error
       ELSE IF ~env.tunnel_ok
       THEN /\ Fail(MSG_PROXY, <<"proxy">>)
            /\ UNCHANGED http_tunneling_settings
       ELSE /\ pc' = "starttls"
            /\ http_tunneling_settings' = Some("tunnel")
            /\ checked' = checked \o <<"proxy">>
            /\ UNCHANGED error

\* lines 226-235: --starttls
CheckStartTls ==
    /\ pc = "starttls"
    /\ UNCHANGED <<has_ipv6, env, args_command_list, args_target_list, client_auth_creds,
                   http_tunneling_settings, good_server_list, bad_server_list, cursor,
                   returned, touched, raw, ps_input, ps_result>>
    /\ LET starttls == args_command_list.starttls
       IN IF starttls = ""
          THEN /\ pc' = "nb_retries"
               /\ tls_wrapped_protocol' = "PLAIN_TLS"
               /\ checked' = checked \o <<"starttls">>
               /\ UNCHANGED error
          ELSE IF starttls \notin START_TLS_PROTOCOLS
          THEN /\ Fail(MSG_STARTTLS, <<"starttls">>)
               /\ tls_wrapped_protocol' = "PLAIN_TLS"
          ELSE /\ pc' = "nb_retries"
               /\ tls_wrapped_protocol' =
                    IF starttls \in STARTTLS_NAME_KEYS
                    THEN STARTTLS_PROTOCOL_DICT_name(starttls)
                    ELSE "PLAIN_TLS"
               /\ checked' = checked \o <<"starttls">>
               /\ UNCHANGED error

\* the --nb_retries check moved behind the loop and the passes
CheckRetries_late ==
    /\ UNCHANGED <<has_ipv6, env, args_command_list, args_target_list, client_auth_creds,
                   http_tunneling_settings, tls_wrapped_protocol, good_server_list,
                   bad_server_list, cursor, returned, touched, raw, ps_input, ps_result>>
    /\ \/ /\ pc = "nb_retries"
          /\ pc' = "resolve"
          /\ UNCHANGED <<error, checked>>
       \/ /\ pc = "return"
          /\ args_command_list.nb_retries < 1
          /\ Fail(MSG_RETRIES, <<"retries">>)

\* lines 238-247: --nb_retries, then the two empty result lists
CheckRetries ==
    /\ pc = "nb_retries"
    /\ UNCHANGED <<has_ipv6, env, args_command_list, args_target_list, client_auth_creds,
                   http_tunneling_settings, tls_wrapped_protocol, good_server_list,
                   bad_server_list, cursor, returned, touched, raw, ps_input, ps_result>>
    /\ IF args_command_list.nb_retries < 1
       THEN Fail(MSG_RETRIES, <<"retries">>)
       ELSE /\ pc' = "resolve"
            /\ checked' = checked \o <<"retries">>
            /\ UNCHANGED error

\* line 266: good_server_list.append(server_info)
AppendGood_front(list, server_info) == <<server_info>> \o list

AppendGood(list, server_info) == Append(list, server_info)

\* line 269: bad_server_list.append(FailedServerScan(server_string, e))
AppendBad(list, failed) == Append(list, failed)

\* lines 248-272: one iteration of the for loop, for target number cursor + 1.
\* The decoding of line 250 stands before the try: its UnicodeDecodeError
\* leaves parse_command_line.
\* Fields idx (position of the target in the input) and writes (assignments to
\* tls_wrapped_protocol after construction) are history fields.
ResolveTarget ==
    /\ pc = "resolve"
    /\ cursor < Len(args_target_list)
    /\ UNCHANGED <<has_ipv6, env, args_command_list, args_target_list, client_auth_creds,
                   http_tunneling_settings, tls_wrapped_protocol, returned, checked,
                   ps_input, ps_result, raw>>
    /\ LET i == cursor + 1
           decoded == Utf8Decode(args_target_list[i])
           server_string == decoded[1]
           parsed == parse_server_string(server_string, has_ipv6)
       IN CASE decoded = None ->
                 /\ pc' = "raised"
                 /\ error' = [type |-> "UnicodeDecodeError",
                              msg |-> "'utf8' codec can't decode byte"]
                 /\ cursor' = i
                 /\ touched' = Append(touched,
                                 [op |-> "decode", idx |-> i,
                                  outcome |-> "UnicodeDecodeError"])
                 /\ UNCHANGED <<good_server_list, bad_server_list, raw>>
            [] decoded # None /\ parsed.kind = "SCE" ->
                 /\ bad_server_list' =
                      AppendBad(bad_server_list, FailedServerScan(server_string, parsed.msg, i))
                 /\ cursor' = i
                 /\ touched' = Append(touched, [op |-> "parse", idx |-> i, outcome |-> "SCE"])
                 /\ UNCHANGED <<pc, error, good_server_list, raw>>
            [] decoded # None /\ parsed.kind = "IndexError" ->
                 /\ pc' = "raised"
                 /\ error' = [type |-> "IndexError", msg |-> parsed.msg]
                 /\ cursor' = i
                 /\ touched' = Append(touched,
                                 [op |-> "parse", idx |-> i, outcome |-> "IndexError"])
                 /\ UNCHANGED <<good_server_list, bad_server_list, raw>>
            [] decoded # None /\ parsed.kind = "ok" ->
                 \E probe_ok \in BOOLEAN, default_port \in DefaultPorts :
                   LET built == ServerConnectivityInfo(
                                  parsed.host, parsed.port, parsed.ip, tls_wrapped_protocol,
                                  args_command_list.sni, args_command_list.xmpp_to,
                                  client_auth_creds, http_tunneling_settings,
                                  probe_ok, default_port)
                       events == touched \o
                                 <<[op |-> "parse", idx |-> i, outcome |-> "ok"],
                                   [op |-> "construct", idx |-> i, outcome |-> built.kind]>>
                   IN /\ touched' = events
                      /\ cursor' = i
                      /\ CASE built.kind = "ok" ->
                                /\ good_server_list' =
                                     AppendGood(good_server_list,
                                       [server_string |-> server_string,
                                        idx |-> i, writes |-> 0,
                                        info |-> built.info[1]])
                                /\ UNCHANGED <<pc, error, bad_server_list, raw>>
                           [] built.kind = "SCE" ->
                                /\ bad_server_list' =
                                     AppendBad(bad_server_list,
                                       FailedServerScan(server_string, built.msg, i))
                                /\ UNCHANGED <<pc, error, good_server_list, raw>>
                           [] built.kind = "ValueError" ->
                                /\ pc' = "raised"
                                /\ error' = CommandLineParsingError(built.msg)
                                /\ UNCHANGED <<good_server_list, bad_server_list, raw>>

\* lines 279-280, for one server_info
StartTlsAuto_https(server_info) ==
    IF server_info.info.port \in STARTTLS_PORT_KEYS \cup {443}
    THEN [server_info EXCEPT
            !.info.tls_wrapped_protocol =
                IF server_info.info.port = 443 THEN "HTTPS"
                ELSE STARTTLS_PROTOCOL_DICT_port(server_info.info.port),
            !.writes = @ + 1]
    ELSE server_info

StartTlsAuto_ignore(server_info) == server_info

StartTlsAuto(server_info) ==
    IF server_info.info.port \in STARTTLS_PORT_KEYS
    THEN [server_info EXCEPT
            !.info.tls_wrapped_protocol = STARTTLS_PROTOCOL_DICT_port(server_info.info.port),
            !.writes = @ + 1]
    ELSE server_info

\* lines 274-280: --starttls=auto
StartTlsAutoPass ==
    /\ pc = "resolve"
    /\ cursor = Len(args_target_list)
    /\ pc' = "http_get"
    /\ good_server_list' =
         IF args_command_list.starttls = "auto"
         THEN [k \in DOMAIN good_server_list |-> StartTlsAuto(good_server_list[k])]
         ELSE good_server_list
    /\ UNCHANGED <<has_ipv6, env, args_command_list, args_target_list, client_auth_creds,
                   http_tunneling_settings, tls_wrapped_protocol, bad_server_list, cursor,
                   error, returned, checked, touched, raw, ps_input, ps_result>>

\* lines 286-287, for one server_info
HttpGetHack_ignore(server_info) == server_info

HttpGetHack(server_info) ==
    IF server_info.info.port = 443
    THEN [server_info EXCEPT !.info.tls_wrapped_protocol = "HTTPS", !.writes = @ + 1]
    ELSE server_info

\* lines 282-287: --http_get.  Reading the attribute of an option that no
\* plugin registered and --regular did not set raises AttributeError.
HttpGetPass ==
    /\ pc = "http_get"
    /\ IF HttpGet(args_command_list) = None
       THEN /\ pc' = "raised"
            /\ error' = [type |-> "AttributeError",
                         msg |-> "Values instance has no attribute 'http_get'"]
            /\ UNCHANGED good_server_list
       ELSE /\ pc' = "return"
            /\ good_server_list' =
                 IF HttpGet(args_command_list)[1]
                 THEN [k \in DOMAIN good_server_list |-> HttpGetHack(good_server_list[k])]
                 ELSE good_server_list
            /\ UNCHANGED error
    /\ UNCHANGED <<has_ipv6, env, args_command_list, args_target_list, client_auth_creds,
                   http_tunneling_settings, tls_wrapped_protocol, bad_server_list, cursor,
                   returned, checked, touched, raw, ps_input, ps_result>>

\* line 289
Return ==
    /\ pc = "return"
    /\ pc' = "done"
    /\ returned' = Some(<<good_server_list, bad_server_list, args_command_list>>)
    /\ UNCHANGED <<has_ipv6, env, args_command_list, args_target_list, client_auth_creds,
                   http_tunneling_settings, tls_wrapped_protocol, good_server_list,
                   bad_server_list, cursor, error, checked, touched, raw, ps_input, ps_result>>

Next ==
    \/ HandleTargetsIn
    \/ CheckNoTargets
    \/ ExpandRegular
    \/ CheckOutputSinks
    \/ CheckClientAuth
    \/ CheckProxy
    \/ CheckStartTls
    \/ CheckRetries
    \/ ResolveTarget
    \/ StartTlsAutoPass
    \/ HttpGetPass
    \/ Return

(***************************************************************************)
(* Inputs.                                                                 *)
(***************************************************************************)
\* Server strings given as targets, as the bytes of argv.
T_h == Text(<<"h">>)
T_h443 == Text(<<"h", ":", "4", "4", "3">>)
T_h587 == Text(<<"h", ":", "5", "8", "7">>)
T_hx == Text(<<"h", ":", "x">>)
T_v6 == Text(<<"[", "a", "]", ":", "4", "4", "3">>)
T_open == Text(<<"[", "a">>)
T_forced == Text(<<"h", ":", "2", "5", "{", "i", "}">>)
\* 'h:' and the Arabic-Indic digits of 443 in UTF-8, then a tab
T_arabic == Text(<<"h", ":">>) \o <<217, 164, 217, 164, 217, 163, 9>>
\* 'h' and a byte that is not UTF-8
T_latin1 == Text(<<"h">>) \o <<255>>

TargetPool == {T_h, T_h443, T_h587, T_hx, T_v6, T_open, T_forced, T_arabic, T_latin1}

RECURSIVE SeqsUpTo(_, _)
SeqsUpTo(S, n) ==
    IF n = 0 THEN {<<>>}
    ELSE LET shorter == SeqsUpTo(S, n - 1)
         IN shorter \cup {Append(q, x) : q \in {r \in shorter : Len(r) = n - 1}, x \in S}

\* Contents of a targets file: empty; a blank line and a comment; a comment,
\* an empty line, a target between a tab and CR LF, and a last line without
\* its '\n'; a target and then a line with a byte >= 128.
FilePool == {<<>>,
             <<32, 10>> \o Text(<<"#", "h">>) \o <<10>>,
             Text(<<"#", "h">>) \o <<10, 10, 9>> \o Text(<<"h", ":", "4", "4", "3">>)
               \o <<13, 10>> \o Text(<<"h">>),
             Text(<<"h">>) \o <<10>> \o Text(<<"h">>) \o <<233, 10>>}

DefaultArgs ==
    [targets_in |-> FALSE, regular |-> FALSE, flags |-> {}, xml_file |-> "",
     json_file |-> "", quiet |-> FALSE, cert |-> FALSE, key |-> FALSE, keyform |-> "PEM",
     https_tunnel |-> FALSE, starttls |-> "", nb_retries |-> 3, xmpp_to |-> "", sni |-> "",
     attrs |-> {"http_get"}]

DefaultEnv == [file_ok |-> TRUE, file_content |-> <<>>, cred_ok |-> TRUE, tunnel_ok |-> TRUE]

InitLocals ==
    /\ pc = "targets_in"
    /\ client_auth_creds = None
    /\ http_tunneling_settings = None
    /\ tls_wrapped_protocol = "PLAIN_TLS"
    /\ good_server_list = <<>>
    /\ bad_server_list = <<>>
    /\ cursor = 0
    /\ error = NoError
    /\ returned = None
    /\ checked = <<>>
    /\ touched = <<>>
    /\ raw = [args |-> args_command_list, targets |-> args_target_list]
    /\ ps_input = <<>>
    /\ ps_result = None

\* Every combination of the options the configuration checks read, over one
\* or no positional target.
InitOptions ==
    /\ has_ipv6 = TRUE
    /\ args_target_list \in {<<>>, <<T_h443>>}
    /\ \E targets_in \in BOOLEAN, file_ok \in BOOLEAN, file_content \in FilePool,
          regular \in BOOLEAN, xml_file \in {"", "-"}, json_file \in {"", "-"},
          quiet \in BOOLEAN, cert \in BOOLEAN, key \in BOOLEAN,
          keyform \in {"PEM", "DER", "P12"}, cred_ok \in BOOLEAN,
          https_tunnel \in BOOLEAN, tunnel_ok \in BOOLEAN,
          starttls \in {"", "auto", "tls"}, nb_retries \in {0, 1} :
        \* outcomes of collaborators that are never called are not varied
        /\ (~targets_in => (file_ok /\ file_content = <<>>))
        /\ (~file_ok => file_content = <<>>)
        /\ (~(cert /\ key) => (keyform = "PEM" /\ cred_ok))
        /\ (~https_tunnel => tunnel_ok)
        /\ args_command_list =
             [DefaultArgs EXCEPT !.targets_in = targets_in, !.regular = regular,
                                 !.xml_file = xml_file, !.json_file = json_file,
                                 !.quiet = quiet, !.cert = cert, !.key = key,
                                 !.keyform = keyform, !.https_tunnel = https_tunnel,
                                 !.starttls = starttls, !.nb_retries = nb_retries]
        /\ env = [file_ok |-> file_ok, file_content |-> file_content, cred_ok |-> cred_ok,
                  tunnel_ok |-> tunnel_ok]

\* Every target list up to MaxTargets, under the options the loop and the two
\* passes read; short is (--regular, the plugin options given, the plugin
\* options registered).
InitTargets ==
    /\ has_ipv6 \in BOOLEAN
    /\ env = DefaultEnv
    /\ args_target_list \in SeqsUpTo(TargetPool, MaxTargets)
    /\ \E starttls \in {"", "smtp", "xmpp", "auto"}, xmpp_to \in {"", "x"},
          short \in {<<FALSE, {}, {"http_get"}>>, <<FALSE, {"http_get"}, {"http_get"}>>,
                     <<TRUE, {}, {"http_get"}>>, <<FALSE, {}, {}>>, <<TRUE, {}, {}>>} :
        args_command_list =
             [DefaultArgs EXCEPT !.starttls = starttls, !.xmpp_to = xmpp_to,
                                 !.regular = short[1], !.flags = short[2],
                                 !.attrs = short[3]]

Init == (InitOptions \/ InitTargets) /\ InitLocals

Spec == Init /\ [][Next]_vars

(***************************************************************************)
(* Harness for parse_server_string alone: one call on one server string.   *)
(***************************************************************************)
\* The pieces server strings are made of.  The last one is ':- ', the
\* Arabic-Indic digit 8, '0' and a tab.
Pieces == {Text(<<"h">>), Text(<<":", "8", "0">>), Text(<<":", "x">>),
           Text(<<"[", "a", "]">>), Text(<<"{">>), Text(<<"}">>), Text(<<"[">>),
           Text(<<":", "0">>), Text(<<":", "-", "1">>),
           Text(<<":", "9", "9", "9", "9", "9", "9", "9", "9">>),
           Text(<<":", "-", " ">>) \o <<1640, 48, 9>>}

RECURSIVE Concat(_)
Concat(ss) == IF ss = <<>> THEN <<>> ELSE Head(ss) \o Concat(Tail(ss))

\* the server strings of at most n pieces
ServerStrings(n) == {Concat(q) : q \in SeqsUpTo(Pieces, n)}

ParseCall ==
    /\ pc = "ps_call"
    /\ pc' = "ps_done"
    /\ ps_result' = Some(parse_server_string(ps_input, has_ipv6))
    /\ UNCHANGED <<has_ipv6, env, args_command_list, args_target_list, client_auth_creds,
                   http_tunneling_settings, tls_wrapped_protocol, good_server_list,
                   bad_server_list, cursor, error, returned, checked, touched, raw, ps_input>>

InitParse ==
    /\ pc = "ps_call"
    /\ has_ipv6 \in BOOLEAN
    /\ ps_input \in ServerStrings(MaxPieces)
    /\ ps_result = None
    /\ env = DefaultEnv
    /\ args_command_list = DefaultArgs
    /\ args_target_list = <<>>
    /\ client_auth_creds = None
    /\ http_tunneling_settings = None
    /\ tls_wrapped_protocol = "PLAIN_TLS"
    /\ good_server_list = <<>>
    /\ bad_server_list = <<>>
    /\ cursor = 0
    /\ error = NoError
    /\ returned = None
    /\ checked = <<>>
    /\ touched = <<>>
    /\ raw = [args |-> args_command_list, targets |-> args_target_list]

NextParse == ParseCall

SpecParse == InitParse /\ [][NextParse]_vars

(***************************************************************************)
(* Vocabulary of the properties.                                           *)
(***************************************************************************)
IdxOf(list) == [k \in DOMAIN list |-> list[k].idx]
Increasing(q) == \A j, k \in DOMAIN q : j < k => q[j] < q[k]
EntriesFor(list, i) == {k \in DOMAIN list : list[k].idx = i}

ConfigMessages == {MSG_EXCLUSIVE, MSG_UNREADABLE, MSG_NO_TARGETS, MSG_XML_QUIET,
                   MSG_JSON_QUIET, MSG_XML_JSON, MSG_CERT_KEY, MSG_KEYFORM,
                   MSG_CREDENTIAL, MSG_PROXY, MSG_STARTTLS, MSG_RETRIES}

ConfigurationErrorRaised ==
    pc = "raised" /\ error.type = "CommandLineParsingError" /\ error.msg \in ConfigMessages

\* the server string of a target: its bytes decoded (line 250)
Decoded(target) == Utf8Decode(target)[1]

\* an exception left parse_command_line before the loop / inside the loop
\* (the only exception after the loop is the AttributeError of line 284)
AbortedBeforeLoop == pc = "raised" /\ touched = <<>>
AbortedInLoop == pc = "raised" /\ touched # <<>> /\ error.type # "AttributeError"

\* a target's parse or its descriptor construction failed
TargetFailure(ev) ==
    \/ ev.op = "parse" /\ ev.outcome # "ok"
    \/ ev.op = "construct" /\ ev.outcome = "SCE"

(***************************************************************************)
(* C1.  Partition totality.                                                *)
(***************************************************************************)
\* C1 (first half): a batch resolved to completion has one entry per target:
\* the two lists together are as long as the target list, and every position
\* of the input is carried, with its string, by exactly one entry of exactly
\* one list.
C1_TotalOnCompletion ==
    pc = "done" =>
      /\ Len(good_server_list) + Len(bad_server_list) = Len(args_target_list)
      /\ \A i \in DOMAIN args_target_list :
           /\ Cardinality(EntriesFor(good_server_list, i))
                + Cardinality(EntriesFor(bad_server_list, i)) = 1
           /\ \A k \in EntriesFor(good_server_list, i) :
                good_server_list[k].server_string = Decoded(args_target_list[i])
           /\ \A k \in EntriesFor(bad_server_list, i) :
                bad_server_list[k].server_string = Decoded(args_target_list[i])

\* C1: partition totality on completion, and every target whose parse or
\* whose connectivity probe failed has exactly one entry in the failure list,
\* carrying its string, and none in the resolved list.
C1_PartitionTotality ==
    /\ C1_TotalOnCompletion
    /\ \A e \in DOMAIN touched :
         TargetFailure(touched[e]) =>
           /\ Cardinality(EntriesFor(bad_server_list, touched[e].idx)) = 1
           /\ EntriesFor(good_server_list, touched[e].idx) = {}
           /\ \A k \in EntriesFor(bad_server_list, touched[e].idx) :
                bad_server_list[k].server_string = Decoded(args_target_list[touched[e].idx])

(***************************************************************************)
(* C2.  Order preservation.                                                *)
(***************************************************************************)
\* C2: in each of the two lists the entries stand in the order of their
\* targets in the input, each carrying the string of its position; and a step
\* of the post-resolution passes leaves the failure list as it is and leaves
\* in the resolved list the same targets at the same places.
C2_OrderPreserved ==
    /\ [](/\ Increasing(IdxOf(good_server_list))
          /\ Increasing(IdxOf(bad_server_list))
          /\ \A k \in DOMAIN good_server_list :
               good_server_list[k].server_string
                 = Decoded(args_target_list[good_server_list[k].idx])
          /\ \A k \in DOMAIN bad_server_list :
               bad_server_list[k].server_string
                 = Decoded(args_target_list[bad_server_list[k].idx]))
    /\ [][(pc = "resolve" /\ pc' = "http_get") \/ pc = "http_get" \/ pc = "return" =>
            /\ bad_server_list' = bad_server_list
            /\ IdxOf(good_server_list') = IdxOf(good_server_list)
            /\ \A k \in DOMAIN good_server_list :
                 good_server_list'[k].server_string = good_server_list[k].server_string]_vars

\* Two different targets resolved and returned, the second rewritten by a pass.
C2_Witness ==
    /\ pc = "done"
    /\ Len(good_server_list) = 2
    /\ good_server_list[1].server_string # good_server_list[2].server_string
    /\ good_server_list[2].writes = 1

(***************************************************************************)
(* C3.  Configuration errors come before any target is touched.            *)
(***************************************************************************)
\* C3: when parse_command_line ends in a configuration error, no target has
\* been parsed, no descriptor construction has been started, and both result
\* lists are still empty.
C3_ConfigErrorsBeforeResolution ==
    ConfigurationErrorRaised =>
      /\ touched = <<>>
      /\ cursor = 0
      /\ good_server_list = <<>>
      /\ bad_server_list = <<>>

\* The last check of all (--nb_retries) failed, with targets waiting.
C3_Witness ==
    /\ ConfigurationErrorRaised
    /\ error.msg = MSG_RETRIES
    /\ args_target_list # <<>>

(***************************************************************************)
(* C4.  Order of the configuration checks.                                 *)
(***************************************************************************)
CheckOrder == <<"exclusive_inputs", "unreadable_file", "no_targets", "regular",
                "xml_quiet", "json_quiet", "xml_json", "cert_key", "keyform",
                "credential", "proxy", "starttls", "retries">>

Position(check) == CHOOSE k \in DOMAIN CheckOrder : CheckOrder[k] = check

\* what each check, taken alone, says of the options as given
WouldFail(check) ==
    LET a == raw.args
        targets == IF a.targets_in /\ raw.targets = <<>> /\ env.file_ok
                   THEN ReadTargets(ReadLines(env.file_content)).targets ELSE raw.targets
    IN CASE check = "exclusive_inputs" -> a.targets_in /\ raw.targets # <<>>
         [] check = "unreadable_file" -> a.targets_in /\ ~env.file_ok
         [] check = "no_targets" -> targets = <<>>
         [] check = "regular" -> FALSE
         [] check = "xml_quiet" -> a.xml_file = "-" /\ a.quiet
         [] check = "json_quiet" -> a.json_file = "-" /\ a.quiet
         [] check = "xml_json" -> a.xml_file = "-" /\ a.json_file = "-"
         [] check = "cert_key" -> (a.cert /\ ~a.key) \/ (a.key /\ ~a.cert)
         [] check = "keyform" -> a.cert /\ a.key /\ a.keyform \notin {"DER", "PEM"}
         [] check = "credential" -> a.cert /\ a.key /\ ~env.cred_ok
         [] check = "proxy" -> a.https_tunnel /\ ~env.tunnel_ok
         [] check = "starttls" -> a.starttls # "" /\ a.starttls \notin START_TLS_PROTOCOLS
         [] check = "retries" -> a.nb_retries < 1

MessageOf(check) ==
    CASE check = "exclusive_inputs" -> MSG_EXCLUSIVE
      [] check = "unreadable_file" -> MSG_UNREADABLE
      [] check = "no_targets" -> MSG_NO_TARGETS
      [] check = "xml_quiet" -> MSG_XML_QUIET
      [] check = "json_quiet" -> MSG_JSON_QUIET
      [] check = "xml_json" -> MSG_XML_JSON
      [] check = "cert_key" -> MSG_CERT_KEY
      [] check = "keyform" -> MSG_KEYFORM
      [] check = "credential" -> MSG_CREDENTIAL
      [] check = "proxy" -> MSG_PROXY
      [] check = "starttls" -> MSG_STARTTLS
      [] check = "retries" -> MSG_RETRIES
      [] OTHER -> ""

FailingChecks == {k \in DOMAIN CheckOrder : WouldFail(CheckOrder[k])}
FirstFailing == CHOOSE k \in FailingChecks : \A j \in FailingChecks : k <= j

ConfigPcs == {"targets_in", "no_targets", "regular", "output_sinks", "client_auth",
              "https_tunnel", "starttls", "nb_retries"}

\* C4 (the part the code keeps): the checks are evaluated in the claimed
\* order; a configuration error is that of the earliest check that fails on
\* the options as given, and that check is the last one evaluated; and the
\* configuration stage is left without an exception only when no check fails.
C4_ChecksInOrder ==
    /\ Increasing([k \in DOMAIN checked |-> Position(checked[k])])
    /\ ConfigurationErrorRaised =>
         /\ FailingChecks # {}
         /\ error.msg = MessageOf(CheckOrder[FirstFailing])
         /\ checked # <<>>
         /\ checked[Len(checked)] = CheckOrder[FirstFailing]
    /\ (pc \notin ConfigPcs /\ ~AbortedBeforeLoop) => FailingChecks = {}

\* C4: the checks are evaluated in the order sourcing, shortcut expansion,
\* output sinks, client authentication, proxy, StartTLS, retries; whenever
\* the configuration stage ends in an error, some check fails on the options
\* as given, the error raised is that of the earliest such check, and that
\* check is the last one evaluated; and the stage ends in an error whenever
\* some check fails.
C4_FirstFailingCheckRaises ==
    /\ Increasing([k \in DOMAIN checked |-> Position(checked[k])])
    /\ AbortedBeforeLoop =>
         /\ FailingChecks # {}
         /\ error = CommandLineParsingError(MessageOf(CheckOrder[FirstFailing]))
         /\ checked # <<>>
         /\ checked[Len(checked)] = CheckOrder[FirstFailing]
    /\ (pc \notin ConfigPcs /\ ~AbortedBeforeLoop) => FailingChecks = {}

(***************************************************************************)
(* C5.  --starttls auto.                                                   *)
(***************************************************************************)
Auto == raw.args.starttls = "auto"
HttpGetGiven == raw.args.regular \/ "http_get" \in raw.args.flags
Protocol(server_info) == server_info.info.tls_wrapped_protocol
Port(server_info) == server_info.info.port

\* C5 as stated: with --starttls auto, once the passes are over a descriptor
\* on a port of the table has the table's protocol and every other descriptor
\* has plain TLS.
C5_AutoLeavesPlainTls ==
    (pc \in {"return", "done"} /\ Auto) =>
      \A k \in DOMAIN good_server_list :
        LET d == good_server_list[k]
        IN IF Port(d) \in STARTTLS_PORT_KEYS
           THEN Protocol(d) = STARTTLS_PROTOCOL_DICT_port(Port(d))
           ELSE Protocol(d) = "PLAIN_TLS"

\* C5 (amended): with --starttls auto, once the passes are over a descriptor
\* on a port of the table has the table's protocol; every other descriptor
\* has plain TLS, except that with http_get set a descriptor on port 443 has
\* HTTPS; and the StartTLS-auto pass leaves the failure list as it is.
C5_AutoByPort ==
    /\ [](pc \in {"return", "done"} /\ Auto =>
           \A k \in DOMAIN good_server_list :
             LET d == good_server_list[k]
             IN IF Port(d) \in STARTTLS_PORT_KEYS
                THEN Protocol(d) = STARTTLS_PROTOCOL_DICT_port(Port(d))
                ELSE IF HttpGetGiven /\ Port(d) = 443
                THEN Protocol(d) = "HTTPS"
                ELSE Protocol(d) = "PLAIN_TLS")
    /\ [][pc = "resolve" /\ pc' = "http_get" => bad_server_list' = bad_server_list]_vars

\* auto and http_get together: port 587 ends as SMTP, port 443 as HTTPS, and
\* a failed target stands in the failure list.
C5_Witness ==
    /\ pc = "done" /\ Auto /\ HttpGetGiven
    /\ \E k \in DOMAIN good_server_list :
         Port(good_server_list[k]) = 587 /\ Protocol(good_server_list[k]) = "STARTTLS_SMTP"
    /\ \E k \in DOMAIN good_server_list :
         Port(good_server_list[k]) = 443 /\ Protocol(good_server_list[k]) = "HTTPS"

(***************************************************************************)
(* C6, C7.  parse_server_string.                                           *)
(***************************************************************************)
Braces(s) == Contains(s, Ord("{")) /\ Contains(s, Ord("}"))
WorkingHost(s) == IF Braces(s) THEN Split(s, Ord("{"))[1] ELSE s
ForcedIp(s) == IF Braces(s) THEN Some(Replace(Split(s, Ord("{"))[2], Ord("}"))) ELSE None
AfterFirst(s, c) == SubSeq(s, IndexOf(s, c) + 1, Len(s))

\* the forced IP is bracketed IPv6 and a port is parsed from it
ForcedIpPort(s) ==
    IF ForcedIp(s) # None /\ Contains(ForcedIp(s)[1], Ord("["))
    THEN LET r == _parse_ipv6_server_string(ForcedIp(s)[1], has_ipv6)
         IN IF r.kind = "ok" THEN r.port ELSE None
    ELSE None

\* C6: when the working host string is not bracketed IPv6 and the forced IP is
\* bracketed IPv6 carrying a port, the port returned is the one parsed from the
\* forced IP.
C6_PortPrecedence ==
    (pc = "ps_done" /\ ps_result[1].kind = "ok"
       /\ ~Contains(WorkingHost(ps_input), Ord("["))
       /\ ForcedIpPort(ps_input) # None)
      => ps_result[1].port = ForcedIpPort(ps_input)

\* C7: for a working host string without '[' (and no bracketed forced IP), a
\* string with no ':' gives the whole string as host and no port; otherwise
\* the host is the text before the first ':' and the whole text after the
\* first ':' is the port, the parse failing with the bad-port error whenever
\* that text is not an integer.
C7_SplitOnFirstColon ==
    (pc = "ps_done"
       /\ ~Contains(WorkingHost(ps_input), Ord("["))
       /\ ~(ForcedIp(ps_input) # None /\ Contains(ForcedIp(ps_input)[1], Ord("["))))
      => LET w == WorkingHost(ps_input)
             r == ps_result[1]
         IN IF ~Contains(w, Ord(":"))
            THEN r = Ok(w, ForcedIp(ps_input), None)
            ELSE IF PyInt(AfterFirst(w, Ord(":"))) = None
            THEN r = Raise("SCE", SERVER_STRING_ERROR_BAD_PORT)
            ELSE r = Ok(Split(w, Ord(":"))[1], ForcedIp(ps_input), PyInt(AfterFirst(w, Ord(":"))))

(***************************************************************************)
(* C8.  What aborts the batch.                                             *)
(***************************************************************************)
LastTouched == touched[Len(touched)]

\* C8: a ValueError of the descriptor constructor on target i ends the batch
\* with CommandLineParsingError: no later target is parsed or probed, no pass
\* has run, nothing is returned; every entry of the failure list comes from a
\* failed parse or a failed probe of its target; and a failed parse or a
\* failed probe never ends the batch.
C8_OnlyConstructionErrorAborts ==
    /\ (pc = "raised" /\ touched # <<>>
          /\ LastTouched.op = "construct" /\ LastTouched.outcome = "ValueError") =>
         /\ error.type = "CommandLineParsingError"
         /\ \A e \in DOMAIN touched : touched[e].idx <= LastTouched.idx
         /\ cursor = LastTouched.idx
         /\ returned = None
         /\ \A k \in DOMAIN good_server_list : good_server_list[k].writes = 0
    /\ \A k \in DOMAIN bad_server_list :
         \E e \in DOMAIN touched :
           /\ touched[e].idx = bad_server_list[k].idx
           /\ TargetFailure(touched[e])
    /\ AbortedInLoop => ~TargetFailure(LastTouched)

\* C8 (the part the code keeps): as C8, for the failures the parser and the
\* prober raise as ServerConnectivityError.
C8_ConnectivityErrorsNeverAbort ==
    /\ (pc = "raised" /\ touched # <<>>
          /\ LastTouched.op = "construct" /\ LastTouched.outcome = "ValueError") =>
         /\ error.type = "CommandLineParsingError"
         /\ \A e \in DOMAIN touched : touched[e].idx <= LastTouched.idx
         /\ cursor = LastTouched.idx
         /\ returned = None
         /\ \A k \in DOMAIN good_server_list : good_server_list[k].writes = 0
    /\ \A k \in DOMAIN bad_server_list :
         \E e \in DOMAIN touched :
           /\ touched[e].idx = bad_server_list[k].idx
           /\ touched[e].outcome = "SCE"
    /\ AbortedInLoop => LastTouched.outcome # "SCE"

(***************************************************************************)
(* C9.  http_get.                                                          *)
(***************************************************************************)
\* the protocol a descriptor has once the StartTLS-auto step is over
ProtocolAfterAuto(port) ==
    IF Auto
    THEN (IF port \in STARTTLS_PORT_KEYS THEN STARTTLS_PROTOCOL_DICT_port(port)
          ELSE "PLAIN_TLS")
    ELSE IF raw.args.starttls \in STARTTLS_NAME_KEYS
    THEN STARTTLS_PROTOCOL_DICT_name(raw.args.starttls)
    ELSE "PLAIN_TLS"

\* C9: with http_get set, directly or by --regular, once the passes are over
\* every descriptor on port 443 has HTTPS whatever --starttls was, and every
\* other descriptor has the protocol of construction and the StartTLS-auto
\* step; until the http_get step no descriptor has HTTPS, and when it starts
\* the StartTLS-auto step has already been applied.
C9_HttpGetForcesHttps ==
    HttpGetGiven =>
      /\ pc \in {"return", "done"} =>
           \A k \in DOMAIN good_server_list :
             LET d == good_server_list[k]
             IN IF Port(d) = 443 THEN Protocol(d) = "HTTPS"
                ELSE Protocol(d) = ProtocolAfterAuto(Port(d))
      /\ pc \in {"resolve", "http_get", "raised"} =>
           \A k \in DOMAIN good_server_list : Protocol(good_server_list[k]) # "HTTPS"
      /\ pc = "http_get" =>
           \A k \in DOMAIN good_server_list :
             Protocol(good_server_list[k]) = ProtocolAfterAuto(Port(good_server_list[k]))

\* --regular with --starttls smtp: port 443 ends as HTTPS, port 587 as SMTP.
C9_Witness ==
    /\ pc = "done" /\ raw.args.regular /\ raw.args.starttls = "smtp"
    /\ \E k \in DOMAIN good_server_list :
         Port(good_server_list[k]) = 443 /\ Protocol(good_server_list[k]) = "HTTPS"
    /\ \E k \in DOMAIN good_server_list :
         Port(good_server_list[k]) = 587
           /\ Protocol(good_server_list[k]) = "STARTTLS_SMTP"

(***************************************************************************)
(* C10.  The protocol of a descriptor is written at most once.             *)
(***************************************************************************)
\* a descriptor but for its protocol and the count of writes to it
Frozen(server_info) ==
    [server_info EXCEPT !.info.tls_wrapped_protocol = "", !.writes = 0]

\* C10: the protocol of a descriptor is assigned at most once after its
\* construction, never during the per-target loop, and the protocol changes
\* only where such an assignment is counted; a pass changes no other field of
\* a descriptor, and it changes neither the options nor the shared settings.
C10_ProtocolWrittenAtMostOnce ==
    /\ [](/\ \A k \in DOMAIN good_server_list : good_server_list[k].writes <= 1
          /\ (pc = "resolve" \/ AbortedInLoop) =>
               \A k \in DOMAIN good_server_list :
                 /\ good_server_list[k].writes = 0
                 /\ Protocol(good_server_list[k]) = tls_wrapped_protocol
          /\ 443 \notin STARTTLS_PORT_KEYS)
    /\ [][(pc = "resolve" /\ pc' = "http_get") \/ pc = "http_get" \/ pc = "return" =>
            /\ DOMAIN good_server_list' = DOMAIN good_server_list
            /\ \A k \in DOMAIN good_server_list :
                 /\ Frozen(good_server_list'[k]) = Frozen(good_server_list[k])
                 /\ Protocol(good_server_list'[k]) # Protocol(good_server_list[k])
                      => good_server_list'[k].writes = good_server_list[k].writes + 1
            /\ UNCHANGED <<args_command_list, client_auth_creds, http_tunneling_settings,
                           tls_wrapped_protocol>>]_vars

\* auto and http_get together: one descriptor written by the StartTLS-auto
\* step, another by the http_get step, each once.
C10_Witness ==
    /\ pc = "done" /\ Auto /\ HttpGetGiven
    /\ \E j, k \in DOMAIN good_server_list :
         /\ Port(good_server_list[j]) \in STARTTLS_PORT_KEYS
         /\ good_server_list[j].writes = 1
         /\ Port(good_server_list[k]) = 443
         /\ good_server_list[k].writes = 1

(***************************************************************************)
(* C11.  Range of an explicit port.                                        *)
(***************************************************************************)
\* C11: a port that parse_server_string returns, which is the port handed to
\* the descriptor constructor, lies in 1..65535; a server string whose port is
\* an integer outside that range is rejected instead.
C11_PortInRange ==
    (pc = "ps_done" /\ ps_result[1].kind = "ok" /\ ps_result[1].port # None)
      => ps_result[1].port[1] \in 1..65535
====
